---------------------------- MODULE Spec2Model ----------------------------
(***************************************************************************)
(* A model of the pump-and-dump toolkit's core:                            *)
(*   find_all_sequences        (pnd_moex/util/other.py)                    *)
(*   anomaly_detect            (pnd_moex/general/general.py)               *)
(*   anomaly_news_markup_func  (pnd_moex/general/general.py)               *)
(* Python indices are zero-based; a Python list or column x of length n is *)
(* the TLA+ sequence with x[i] (Python) = x[i + 1] (TLA+).                 *)
(***************************************************************************)
EXTENDS Integers, Sequences, FiniteSets, TLC

VARIABLES
    \* find_all_sequences
    a,            \* the input sequence
    key,          \* the predicate: [none |-> TRUE] or the set of values it accepts
    unique_vals,  \* no-predicate mode: values of set(a) not yet scanned
    idx,          \* the scan index of the outer while loop
    result,       \* the list of (start, end) runs
    fpc,          \* position in find_all_sequences
    \* anomaly_detect
    ts,           \* the input price series
    flags,        \* the parameters quantile, persist and volatility
    fill_pad,     \* whether pct_change forward-fills missing values first
    a_map,        \* the boolean map being built
    raw_map,      \* column name -> a_map as first computed, before the smear
    ids,          \* the true positions found by np.where, not yet smeared
    df,           \* the result table: column name -> boolean column
    detected,     \* the columns of df the ADTK detectors gave, before fillna
    dpc,          \* position in anomaly_detect
    \* anomaly_news_markup_func
    rows,         \* the inputs df and anomaly_map, one entry per business day
    first_dow,    \* the weekday (0 = Monday) of the first business day
    mark_period,  \* the parameter mark_period
    na_mark,      \* the parameter na_mark
    news_len,     \* len(news_list)
    val_col,      \* freqed_df[val_col]
    anomaly,      \* freqed_df["anomaly"]
    mark,         \* freqed_df["mark"]
    a_n_list,     \* the expanded anomaly and NaN runs, sorted
    run_i,        \* how many runs of a_n_list the marking loop has done
    news_n,       \* how many events of news_list the news loop has done
    f_a_dates,    \* the values f_a_date has taken so far
    skipped,      \* how many events the news loop has left by its continue
    mpc           \* position in anomaly_news_markup_func

fvars == <<a, key, unique_vals, idx, result, fpc>>

dvars == <<ts, flags, fill_pad, a_map, raw_map, ids, df, detected, dpc>>

mvars == <<rows, first_dow, mark_period, na_mark, news_len, val_col, anomaly,
           mark, a_n_list, run_i, news_n, f_a_dates, skipped, mpc>>

vars == <<fvars, dvars, mvars>>

-----------------------------------------------------------------------------
(* Bounds of the model.                                                    *)

MaxLen == 5

MaxVal == 2

Values == 0..MaxVal

\* All sequences over S of length at most n.
SeqsUpTo(S, n) == UNION {[1..m -> S] : m \in 0..n}

\* A predicate over the elements is the set of the values it accepts.
Keys == [none : {FALSE}, holds : SUBSET Values]

KeyNone == [none |-> TRUE, holds |-> {}]

MaxTs == 6

MaxFlagTs == 4

MaxSlots == 7

MaxSpecial == 2

MaxNews == 2

\* Prices: zero and four levels, enough for three consecutive rises.
Prices == {0, 1, 2, 3, 4}

\* A slip: the predicate of line 22 compares with >= instead of ==.
KeyAtLeast(val) == [none |-> FALSE, holds |-> {v \in Values : v >= val}]

\* lambda x: x == val
KeyEq(val) == [none |-> FALSE, holds |-> {val}]

-----------------------------------------------------------------------------
(* find_all_sequences                                                      *)

\* key(a[i]) for the Python index i
KeyAt(s, k, i) == s[i + 1] \in k.holds

\* The inner while loop (lines 30-32): from idx, where key holds, advance while
\* idx < len(a) and key(a[idx]); returns the index after the loop.
RECURSIVE InnerLoopEnd(_, _, _)
InnerLoopEnd(s, k, i) ==
    IF i < Len(s) /\ KeyAt(s, k, i) THEN InnerLoopEnd(s, k, i + 1) ELSE i

\* A slip: tmp[1] takes idx after the increment.
RunTupleOffByOne(s, k, i) == <<i, InnerLoopEnd(s, k, i)>>

\* tmp after the inner loop: tmp = [idx, idx], then tmp[1] = the last index at
\* which the inner loop's condition held.
RunTuple(s, k, i) == <<i, InnerLoopEnd(s, k, i) - 1>>

\* idx after one iteration of the outer while loop (lines 27-35).
IterIdx(s, k, i) ==
    IF KeyAt(s, k, i) THEN InnerLoopEnd(s, k, i) ELSE i + 1

\* A slip: the run is appended only when the predicate fails after it, so a run
\* that reaches the end of the input is lost.
IterResultDropsLast(s, k, i, res) ==
    IF KeyAt(s, k, i) /\ InnerLoopEnd(s, k, i) < Len(s)
    THEN Append(res, RunTuple(s, k, i))
    ELSE res

\* A slip: only runs of two or more elements are appended.
IterResultNeedsTwo(s, k, i, res) ==
    IF KeyAt(s, k, i) /\ InnerLoopEnd(s, k, i) > i + 1
    THEN Append(res, RunTuple(s, k, i))
    ELSE res

\* result after one iteration of the outer while loop (lines 27-35).
IterResult(s, k, i, res) ==
    IF KeyAt(s, k, i) THEN Append(res, RunTuple(s, k, i)) ELSE res

\* The outer while loop run to its end from (idx, result) (lines 26-36).
RECURSIVE ScanFrom(_, _, _, _)
ScanFrom(s, k, i, res) ==
    IF i < Len(s)
    THEN ScanFrom(s, k, IterIdx(s, k, i), IterResult(s, k, i, res))
    ELSE res

\* find_all_sequences(a, key) with a predicate: the recursive call of line 22.
FindWithKey(s, k) == ScanFrom(s, k, 0, <<>>)

\* list.sort(key=lambda x: x[0]): a stable insertion of r into a sorted list.
RECURSIVE InsertByStart(_, _)
InsertByStart(sorted, r) ==
    IF sorted = <<>> THEN <<r>>
    ELSE IF r[1] < Head(sorted)[1] THEN <<r>> \o sorted
    ELSE <<Head(sorted)>> \o InsertByStart(Tail(sorted), r)

\* A slip: the merged runs are returned unsorted.
SortByStartSkipped(runs) == runs

RECURSIVE SortByStart(_)
SortByStart(runs) ==
    IF runs = <<>> THEN <<>>
    ELSE InsertByStart(SortByStart(SubSeq(runs, 1, Len(runs) - 1)), runs[Len(runs)])

\* set(a)
SetOf(s) == {s[i] : i \in 1..Len(s)}

FasIdle ==
    /\ a = <<>>
    /\ key = KeyNone
    /\ unique_vals = {}
    /\ idx = 0
    /\ result = <<>>
    /\ fpc = "idle"

\* The longest input of a call followed to its return
MaxLiveLen == 3

\* A call on a shorter input, for the check that every call returns
FasInitLive ==
    /\ a \in SeqsUpTo(Values, MaxLiveLen)
    /\ key \in Keys \cup {KeyNone}
    /\ unique_vals = {}
    /\ idx = 0
    /\ result = <<>>
    /\ fpc = "call"

FasInit ==
    /\ a \in SeqsUpTo(Values, MaxLen)
    /\ key \in Keys \cup {KeyNone}
    /\ unique_vals = {}
    /\ idx = 0
    /\ result = <<>>
    /\ fpc = "call"

\* lines 19-20: key is None, unique_vals = set(a)
FasNoKey ==
    /\ fpc = "call"
    /\ key.none
    /\ unique_vals' = SetOf(a)
    /\ fpc' = "vals"
    /\ UNCHANGED <<a, key, idx, result>>
    /\ UNCHANGED <<dvars, mvars>>

\* lines 21-22: one iteration of "for val in unique_vals" (a set: any order)
FasForVal ==
    /\ fpc = "vals"
    /\ \E val \in unique_vals :
          /\ result' = result \o FindWithKey(a, KeyEq(val))
          /\ unique_vals' = unique_vals \ {val}
    /\ UNCHANGED <<a, key, idx, fpc>>
    /\ UNCHANGED <<dvars, mvars>>

\* lines 23-24: sort by start and return
FasSortReturn ==
    /\ fpc = "vals"
    /\ unique_vals = {}
    /\ result' = SortByStart(result)
    /\ fpc' = "done"
    /\ UNCHANGED <<a, key, unique_vals, idx>>
    /\ UNCHANGED <<dvars, mvars>>

\* line 25: idx = 0
FasStartScan ==
    /\ fpc = "call"
    /\ ~key.none
    /\ idx' = 0
    /\ fpc' = "loop"
    /\ UNCHANGED <<a, key, unique_vals, result>>
    /\ UNCHANGED <<dvars, mvars>>

\* A slip: the idx += 1 of line 35 is missing.
FasIterStuck ==
    /\ fpc = "loop"
    /\ idx < Len(a)
    /\ idx' = (IF KeyAt(a, key, idx) THEN InnerLoopEnd(a, key, idx) ELSE idx)
    /\ result' = IterResult(a, key, idx, result)
    /\ UNCHANGED <<a, key, unique_vals, fpc>>
    /\ UNCHANGED <<dvars, mvars>>

\* lines 26-35: one iteration of the outer while loop
FasIter ==
    /\ fpc = "loop"
    /\ idx < Len(a)
    /\ idx' = IterIdx(a, key, idx)
    /\ result' = IterResult(a, key, idx, result)
    /\ UNCHANGED <<a, key, unique_vals, fpc>>
    /\ UNCHANGED <<dvars, mvars>>

\* line 36: the loop condition fails, return result
FasReturn ==
    /\ fpc = "loop"
    /\ idx >= Len(a)
    /\ fpc' = "done"
    /\ UNCHANGED <<a, key, unique_vals, idx, result>>
    /\ UNCHANGED <<dvars, mvars>>

FasNext ==
    \/ FasNoKey
    \/ FasForVal
    \/ FasSortReturn
    \/ FasStartScan
    \/ FasIter
    \/ FasReturn

-----------------------------------------------------------------------------
(* anomaly_detect                                                          *)

\* A cell of a float column: a number or NaN.
Num(x) == [na |-> FALSE, v |-> x]

NaN == [na |-> TRUE, v |-> 0]

\* The price series as a float column.
AsColumn(s) == [i \in 1..Len(s) |-> Num(s[i])]

\* A slip: shift(k), position i takes the value of position i - k.
ShiftForward(col, k) ==
    [i \in 1..Len(col) |-> IF i - k >= 1 THEN col[i - k] ELSE NaN]

\* Series.shift(-k): position i takes the value of position i + k, the last k
\* positions become NaN.
ShiftBack(col, k) ==
    [i \in 1..Len(col) |-> IF i + k <= Len(col) THEN col[i + k] ELSE NaN]

\* fillna(method="pad"): a NaN takes the last value before it, if there is one.
RECURSIVE PadCell(_, _)
PadCell(col, i) ==
    IF ~col[i].na \/ i = 1 THEN col[i] ELSE PadCell(col, i - 1)

FillPad(col) == [i \in 1..Len(col) |-> PadCell(col, i)]

\* cur / prev - 1 in floating point: NaN if either is NaN or both are 0, +inf
\* over a zero divisor (prices are not negative), a finite ratio otherwise.
PctCell(cur, prev) ==
    IF cur.na \/ prev.na THEN [kind |-> "nan", num |-> 0, den |-> 1]
    ELSE IF prev.v = 0
         THEN IF cur.v = 0 THEN [kind |-> "nan", num |-> 0, den |-> 1]
              ELSE [kind |-> "inf", num |-> cur.v, den |-> 0]
    ELSE [kind |-> "fin", num |-> cur.v, den |-> prev.v]

\* Series.pct_change(periods): data / data.shift(periods) - 1, where data is the
\* column, forward-filled when fill_method is "pad".
PctChange(col, periods, pad) ==
    LET data == IF pad THEN FillPad(col) ELSE col
    IN  [i \in 1..Len(col) |->
            IF i - periods >= 1 THEN PctCell(data[i], data[i - periods])
            ELSE PctCell(NaN, NaN)]

\* pct > percent / 100: false for NaN, true for +inf.
Exceeds(pct, percent) ==
    CASE pct.kind = "nan" -> FALSE
      [] pct.kind = "inf" -> TRUE
      [] OTHER -> (pct.num - pct.den) * 100 > percent * pct.den

\* The thresholds of lines 32 and 43, in percent.
Over20 == 20

Over80 == 80

\* A slip: the first change is taken three steps ahead instead of at the position.
pct_lag1Ahead(s, pad) == PctChange(ShiftBack(AsColumn(s), 3), 1, pad)

\* lines 23-25
pct_lag1(s, pad) == PctChange(AsColumn(s), 1, pad)

pct_lag2(s, pad) == PctChange(ShiftBack(AsColumn(s), 1), 1, pad)

\* A slip: the third change is shifted by one, as the second.
pct_lag3ShiftedOnce(s, pad) == PctChange(ShiftBack(AsColumn(s), 1), 1, pad)

pct_lag3(s, pad) == PctChange(ShiftBack(AsColumn(s), 2), 1, pad)

\* A slip: the three-period change is taken of the unshifted series.
pct_over3Unshifted(s, pad) == PctChange(AsColumn(s), 3, pad)

\* line 26
pct_over3(s, pad) == PctChange(ShiftBack(AsColumn(s), 2), 3, pad)

\* line 32: (np.array([pct_lag1, pct_lag2, pct_lag3]) > 0.2).all(axis=0)
Raw3over20(s, pad) ==
    [i \in 1..Len(s) |->
        /\ Exceeds(pct_lag1(s, pad)[i], Over20)
        /\ Exceeds(pct_lag2(s, pad)[i], Over20)
        /\ Exceeds(pct_lag3(s, pad)[i], Over20)]

\* line 43: pct_over3 > 0.8
Raw80over3(s, pad) ==
    [i \in 1..Len(s) |-> Exceeds(pct_over3(s, pad)[i], Over80)]

\* np.where(a_map == True)[0]: the Python indices of the true cells, ascending.
RECURSIVE WhereTrue(_, _)
WhereTrue(m, i) ==
    IF i >= Len(m) THEN <<>>
    ELSE (IF m[i + 1] THEN <<i>> ELSE <<>>) \o WhereTrue(m, i + 1)

\* A slip: the map is rewritten while it is scanned, so every cell a smear sets
\* smears in turn and the flag runs to the end of the map.
SmearAtWhileScanning(m, id) ==
    [i \in 1..Len(m) |-> IF id + 1 <= i THEN TRUE ELSE m[i]]

\* A slip: the slice covers the detection and the two cells before it.
SmearAtBackwards(m, id) ==
    [i \in 1..Len(m) |-> IF id - 1 <= i /\ i <= id + 1 THEN TRUE ELSE m[i]]

\* A slip: the slice covers two cells.
SmearAtTwo(m, id) ==
    [i \in 1..Len(m) |-> IF id + 1 <= i /\ i <= id + 2 THEN TRUE ELSE m[i]]

\* a_map[id : id + 3] = True: the slice is cut at the end of the map.
SmearAt(m, id) ==
    [i \in 1..Len(m) |-> IF id + 1 <= i /\ i <= id + 3 THEN TRUE ELSE m[i]]

\* The empty table
NoColumns == [c \in {} |-> <<>>]

\* table[name] = column
WithColumn(table, name, column) ==
    [c \in DOMAIN table \cup {name} |-> IF c = name THEN column ELSE table[c]]

\* quantile=False, persist=False, volatility=False
NoDetectors == [quantile |-> FALSE, persist |-> FALSE, volatility |-> FALSE]

\* The names of the columns the flags ask for (lines 52, 55, 59)
Requested(f) ==
    {c \in {"quantile", "persist", "volatility"} : f[c]}

\* What a column of df may hold after df[name] = detector.fit_detect(...): the
\* assignment aligns the detector's series to the index of ts, so the column
\* has len(ts) cells; a cell is NaN where the detector gave no value.  Two
\* shapes: no detection and nothing missing; a missing first cell, then
\* detections.
AdtkOutputs(n) ==
    {[i \in 1..n |-> "False"],
     [i \in 1..n |-> IF i = 1 THEN "nan" ELSE "True"]}

\* A slip: fillna(True)
FillNaTrue(column) ==
    [i \in 1..Len(column) |-> column[i] \in {"True", "nan"}]

\* line 65: fillna(False) on a column of True, False and NaN
FillNaFalse(column) ==
    [i \in 1..Len(column) |-> column[i] = "True"]

\* The table with the columns of both tables
Columns(table, more) ==
    [c \in DOMAIN table \cup DOMAIN more |->
        IF c \in DOMAIN more THEN more[c] ELSE table[c]]

\* The scenario of a 20% rise on three days running, in tenths: ten days at
\* 100 but for the days 4, 5 and 6 at 121, 146.4 and 176.7
RiseScenario == <<1000, 1000, 1000, 1000, 1210, 1464, 1767, 1000, 1000, 1000>>

DetIdle ==
    /\ ts = <<>>
    /\ flags = NoDetectors
    /\ fill_pad = FALSE
    /\ a_map = <<>>
    /\ raw_map = NoColumns
    /\ ids = <<>>
    /\ df = NoColumns
    /\ detected = NoColumns
    /\ dpc = "idle"

\* A call with any flags, on a short series
DetInitFlags ==
    /\ ts \in SeqsUpTo(Prices, MaxFlagTs)
    /\ flags \in [quantile : BOOLEAN, persist : BOOLEAN, volatility : BOOLEAN]
    /\ fill_pad \in BOOLEAN
    /\ a_map = <<>>
    /\ raw_map = NoColumns
    /\ ids = <<>>
    /\ df = NoColumns
    /\ detected = NoColumns
    /\ dpc = "call"

\* A call with the rule-based detectors only
DetInit ==
    /\ ts \in SeqsUpTo(Prices, MaxTs) \cup {RiseScenario}
    /\ flags = NoDetectors
    /\ fill_pad \in BOOLEAN
    /\ a_map = <<>>
    /\ raw_map = NoColumns
    /\ ids = <<>>
    /\ df = NoColumns
    /\ detected = NoColumns
    /\ dpc = "call"

\* lines 23-37: the raw 3over20 map and its true positions
DetRaw3over20 ==
    /\ dpc = "call"
    /\ a_map' = Raw3over20(ts, fill_pad)
    /\ raw_map' = WithColumn(raw_map, "3over20", a_map')
    /\ ids' = WhereTrue(a_map', 0)
    /\ dpc' = "smear3"
    /\ UNCHANGED <<ts, flags, fill_pad, df, detected>>
    /\ UNCHANGED <<fvars, mvars>>

\* A slip: a_map is ts itself, and the smear is written into it.
DetSmear3over20InPlace ==
    /\ dpc = "smear3"
    /\ ids # <<>>
    /\ a_map' = SmearAt(a_map, Head(ids))
    /\ ts' = [i \in 1..Len(ts) |->
                IF Head(ids) + 1 <= i /\ i <= Head(ids) + 3 THEN 1 ELSE ts[i]]
    /\ ids' = Tail(ids)
    /\ UNCHANGED <<flags, fill_pad, raw_map, df, detected, dpc>>
    /\ UNCHANGED <<fvars, mvars>>

\* lines 38-39: one iteration of the smear loop
DetSmear3over20 ==
    /\ dpc = "smear3"
    /\ ids # <<>>
    /\ a_map' = SmearAt(a_map, Head(ids))
    /\ ids' = Tail(ids)
    /\ UNCHANGED <<ts, flags, fill_pad, raw_map, df, detected, dpc>>
    /\ UNCHANGED <<fvars, mvars>>

\* lines 40-44: df["3over20"] = a_map, then the raw 80over3 map and its true
\* positions
DetRaw80over3 ==
    /\ dpc = "smear3"
    /\ ids = <<>>
    /\ df' = WithColumn(df, "3over20", a_map)
    /\ a_map' = Raw80over3(ts, fill_pad)
    /\ raw_map' = WithColumn(raw_map, "80over3", a_map')
    /\ ids' = WhereTrue(a_map', 0)
    /\ dpc' = "smear80"
    /\ UNCHANGED <<ts, flags, fill_pad, detected>>
    /\ UNCHANGED <<fvars, mvars>>

\* lines 45-46: one iteration of the smear loop
DetSmear80over3 ==
    /\ dpc = "smear80"
    /\ ids # <<>>
    /\ a_map' = SmearAt(a_map, Head(ids))
    /\ ids' = Tail(ids)
    /\ UNCHANGED <<ts, flags, fill_pad, raw_map, df, detected, dpc>>
    /\ UNCHANGED <<fvars, mvars>>

\* lines 48-62: df["80over3"] = a_map, then the columns of the detectors the
\* flags ask for
DetAdtk ==
    /\ dpc = "smear80"
    /\ ids = <<>>
    /\ df' = WithColumn(df, "80over3", a_map)
    /\ detected' \in [Requested(flags) -> AdtkOutputs(Len(ts))]
    /\ dpc' = "fillna"
    /\ UNCHANGED <<ts, flags, fill_pad, a_map, raw_map, ids>>
    /\ UNCHANGED <<fvars, mvars>>

\* lines 65-67: df.fillna(False), return df; the boolean columns have no NaN
DetReturn ==
    /\ dpc = "fillna"
    /\ df' = Columns(df, [c \in DOMAIN detected |-> FillNaFalse(detected[c])])
    /\ dpc' = "done"
    /\ UNCHANGED <<ts, flags, fill_pad, a_map, raw_map, ids, detected>>
    /\ UNCHANGED <<fvars, mvars>>

DetNext ==
    \/ DetRaw3over20
    \/ DetSmear3over20
    \/ DetRaw80over3
    \/ DetSmear80over3
    \/ DetAdtk
    \/ DetReturn

-----------------------------------------------------------------------------
(* anomaly_news_markup_func                                                *)
(* The business days spanned by df are the slots 0..n-1.  A weekday is the  *)
(* slot it falls on, anywhere on the line of business days; a Saturday or   *)
(* Sunday is given by the Friday slot before it.                            *)

\* What df and anomaly_map hold for one business day:
\*   "N"  a row with a price, anomaly False
\*   "A"  a row with a price, anomaly True
\*   "X"  a row whose price is NaN, anomaly False
\*   "M"  no row (a holiday, a gap)
RowKinds == {"N", "A", "X", "M"}

\* df.asfreq("B")[val_col]: NaN where the day has no row or no price
FreqedValue(r) ==
    [i \in 1..Len(r) |-> IF r[i] \in {"M", "X"} THEN "nan" ELSE "num"]

\* anomaly_map.asfreq("B"), a boolean series: with a day missing the column is
\* of dtype object and holds Python bools and NaN; with none missing it stays of
\* dtype bool and its cells read as numpy.bool_.
FreqedAnomaly(r) ==
    IF \E i \in 1..Len(r) : r[i] = "M"
    THEN [i \in 1..Len(r) |->
            CASE r[i] = "M" -> "nan"
              [] r[i] = "A" -> "True"
              [] OTHER -> "False"]
    ELSE [i \in 1..Len(r) |-> IF r[i] = "A" THEN "np.True_" ELSE "np.False_"]

\* lambda x: x is True: identity with the Python object True
IsTrue == [none |-> FALSE, holds |-> {"True"}]

\* lambda x: np.isnan(x)
IsNaN == [none |-> FALSE, holds |-> {"nan"}]

\* x == True
EqualsTrue(x) == x \in {"True", "np.True_"}

\* bool(x), as any() takes it: NaN is truthy
Truthy(x) == x \in {"True", "np.True_", "nan"}

\* The margin of lines 106-107, in business days
Margin == 3

ExpandUnclamped(x, n) == <<x[1] - Margin, x[2] + Margin>>

\* lines 105-108: (x[0] - 3 if x[0] > 3 else 0, x[1] + 3 if x[1] < n - 3 else n - 1)
Expand(x, n) ==
    << IF x[1] > Margin THEN x[1] - Margin ELSE 0,
       IF x[2] < n - Margin THEN x[2] + Margin ELSE n - 1 >>

\* list(map(..., a_n_list))
ExpandAll(runs, n) == [j \in 1..Len(runs) |-> Expand(runs[j], n)]

\* lines 99-112: the anomaly runs, then the NaN runs, expanded and sorted
RunList(anom, vals) ==
    SortByStart(ExpandAll(FindWithKey(anom, IsTrue) \o FindWithKey(vals, IsNaN),
                          Len(vals)))

SetMarkAdds(m, lo, hi, v) ==
    [i \in 1..Len(m) |-> IF lo <= i - 1 /\ i - 1 <= hi THEN m[i] + v ELSE m[i]]

\* freqed_df.loc[lo:hi, "mark"] = v for the slots lo..hi: a label slice, both
\* ends included, cut to the index
SetMark(m, lo, hi, v) ==
    [i \in 1..Len(m) |-> IF lo <= i - 1 /\ i - 1 <= hi THEN v ELSE m[i]]

\* The offsets of lines 124, 135 and 136, in business days
BDaysBack == 10

DaysBefore == 7

DaysAfter == 5

\* date + BDay(k): from a business day k slots on; from a weekend, k <= 0 first
\* rolls forward to the Monday, k > 0 counts the Monday as the first day
BDay(date, k) ==
    IF ~date.weekend THEN date.slot + k
    ELSE IF k <= 0 THEN date.slot + 1 + k
    ELSE date.slot + k

\* pd.Timestamp(news_date.date()) of a weekday on slot k
Weekday(k) == [slot |-> k, weekend |-> FALSE]

\* pd.Timestamp(news_date.date()) of a Saturday or Sunday after the Friday on slot k
Weekend(k) == [slot |-> k, weekend |-> TRUE]

\* The slot k is a Friday
IsFriday(k) == (first_dow + k) % 5 = 4

\* The dates a news event may have: every business day from before the frame
\* to BDaysBack after it, and the weekends among them
NewsDates ==
    {Weekday(k) : k \in (0 - 1)..(Len(rows) + BDaysBack)}
        \cup {Weekend(k) : k \in {j \in (0 - 1)..(Len(rows) + BDaysBack) : IsFriday(j)}}

\* lines 124-127: the slots of freqed_df.loc[previous_date:next_date]
Selected(news) ==
    LET previous_date == BDay(news, 0 - BDaysBack)
        next_date == BDay(news, 0)
    IN  (IF previous_date > 0 THEN previous_date ELSE 0)
            ..(IF next_date < Len(val_col) - 1 THEN next_date ELSE Len(val_col) - 1)

AnyIsNaUnchecked(sel) == FALSE

\* line 129: any(selected_df[val_col].isna())
AnyIsNa(sel) == \E i \in sel : val_col[i + 1] = "nan"

\* line 132: any(selected_df["anomaly"])
AnyAnomaly(sel) == \E i \in sel : Truthy(anomaly[i + 1])

\* line 133: the index of selected_df.loc[selected_df["anomaly"] == True]
AnomalyDates(sel) == {i \in sel : EqualsTrue(anomaly[i + 1])}

FirstIsLast(S) == CHOOSE i \in S : \A j \in S : j <= i

\* .index[0]
First(S) == CHOOSE i \in S : \A j \in S : i <= j

\* A slip: the event adds 1 to the marks instead of assigning 1.
MarkNewsCounts(m, d) ==
    IF mark_period
    THEN [i \in 1..Len(m) |->
            IF d - DaysBefore <= i - 1 /\ i - 1 <= d + DaysAfter THEN m[i] + 1 ELSE m[i]]
    ELSE [i \in 1..Len(m) |-> IF i - 1 = d THEN m[i] + 1 ELSE m[i]]

\* A slip: the event rebuilds the column, 1 on its slots and 0 elsewhere.
MarkNewsResets(m, d) ==
    IF mark_period
    THEN [i \in 1..Len(m) |->
            IF d - DaysBefore <= i - 1 /\ i - 1 <= d + DaysAfter THEN 1 ELSE 0]
    ELSE [i \in 1..Len(m) |-> IF i - 1 = d THEN 1 ELSE 0]

MarkNewsAlwaysPeriod(m, d) ==
    SetMark(m, BDay(Weekday(d), 0 - DaysBefore), BDay(Weekday(d), DaysAfter), 1)

\* lines 134-139: the marks of an event whose first anomaly is on slot d
MarkNews(m, d) ==
    IF mark_period
    THEN SetMark(m, BDay(Weekday(d), 0 - DaysBefore), BDay(Weekday(d), DaysAfter), 1)
    ELSE SetMark(m, d, d, 1)

MkIdle ==
    /\ rows = <<>>
    /\ first_dow = 0
    /\ mark_period = FALSE
    /\ na_mark = 0
    /\ news_len = 0
    /\ val_col = <<>>
    /\ anomaly = <<>>
    /\ mark = <<>>
    /\ a_n_list = <<>>
    /\ run_i = 0
    /\ news_n = 0
    /\ f_a_dates = {}
    /\ skipped = 0
    /\ mpc = "idle"

\* The weekday the frame starts on: a Monday
StartDays == {0}

\* The value given for na_mark: the default
NaMarks == {0 - 1}

MkInit ==
    /\ rows \in {r \in UNION {[1..m -> RowKinds] : m \in 1..MaxSlots} :
                    Cardinality({i \in 1..Len(r) : r[i] # "N"}) <= MaxSpecial}
    /\ first_dow \in StartDays
    /\ mark_period \in BOOLEAN
    /\ na_mark \in NaMarks
    /\ news_len \in 0..MaxNews
    /\ val_col = <<>>
    /\ anomaly = <<>>
    /\ mark = <<>>
    /\ a_n_list = <<>>
    /\ run_i = 0
    /\ news_n = 0
    /\ f_a_dates = {}
    /\ skipped = 0
    /\ mpc = "call"

\* lines 94-113: resample, mark = 0, find and expand the runs
MkPrepare ==
    /\ mpc = "call"
    /\ val_col' = FreqedValue(rows)
    /\ anomaly' = FreqedAnomaly(rows)
    /\ mark' = [i \in 1..Len(rows) |-> 0]
    /\ a_n_list' = RunList(anomaly', val_col')
    /\ run_i' = 0
    /\ mpc' = "runs"
    /\ UNCHANGED <<rows, first_dow, mark_period, na_mark, news_len, news_n, f_a_dates,
                   skipped>>
    /\ UNCHANGED <<fvars, dvars>>

\* lines 116-119: one iteration of the loop over a_n_list
MkRun ==
    /\ mpc = "runs"
    /\ run_i < Len(a_n_list)
    /\ mark' = SetMark(mark, a_n_list[run_i + 1][1], a_n_list[run_i + 1][2], na_mark)
    /\ run_i' = run_i + 1
    /\ UNCHANGED <<rows, first_dow, mark_period, na_mark, news_len, val_col, anomaly,
                   a_n_list, news_n, f_a_dates, skipped, mpc>>
    /\ UNCHANGED <<fvars, dvars>>

\* line 122: the loop over a_n_list is over, the loop over news_list starts
MkRunsDone ==
    /\ mpc = "runs"
    /\ run_i = Len(a_n_list)
    /\ mpc' = "news"
    /\ UNCHANGED <<rows, first_dow, mark_period, na_mark, news_len, val_col, anomaly,
                   mark, a_n_list, run_i, news_n, f_a_dates, skipped>>
    /\ UNCHANGED <<fvars, dvars>>

\* lines 122-139: one iteration of the loop over news_list, for the event news
MkNews(news) ==
    /\ mpc = "news"
    /\ news_n < news_len
    /\ news_n' = news_n + 1
    /\ LET sel == Selected(news)
       IN  IF AnyIsNa(sel)
           THEN /\ skipped' = skipped + 1
                /\ UNCHANGED <<mark, f_a_dates, mpc>>
           ELSE IF ~AnyAnomaly(sel)
           THEN UNCHANGED <<mark, f_a_dates, skipped, mpc>>
           ELSE IF AnomalyDates(sel) = {}
           THEN /\ mpc' = "IndexError"
                /\ UNCHANGED <<mark, f_a_dates, skipped>>
           ELSE /\ mark' = MarkNews(mark, First(AnomalyDates(sel)))
                /\ f_a_dates' = f_a_dates \cup {First(AnomalyDates(sel))}
                /\ UNCHANGED <<skipped, mpc>>
    /\ UNCHANGED <<rows, first_dow, mark_period, na_mark, news_len, val_col, anomaly,
                   a_n_list, run_i>>
    /\ UNCHANGED <<fvars, dvars>>

\* one iteration of the loop over news_list, for some event
MkNewsAny == \E news \in NewsDates : MkNews(news)

\* lines 140-141: drop the anomaly column and return
MkReturn ==
    /\ mpc = "news"
    /\ news_n = news_len
    /\ anomaly' = <<>>
    /\ mpc' = "done"
    /\ UNCHANGED <<rows, first_dow, mark_period, na_mark, news_len, val_col, mark,
                   a_n_list, run_i, news_n, f_a_dates, skipped>>
    /\ UNCHANGED <<fvars, dvars>>

MkNext ==
    \/ MkPrepare
    \/ MkRun
    \/ MkRunsDone
    \/ MkNewsAny
    \/ MkReturn

-----------------------------------------------------------------------------

\* A call of find_all_sequences
InitSeq == FasInit /\ DetIdle /\ MkIdle

SpecSeq == InitSeq /\ [][FasNext]_vars

\* A call of find_all_sequences that keeps running: the interpreter executes
\* the next statement as long as there is one
InitSeqLive == FasInitLive /\ DetIdle /\ MkIdle

SpecSeqLive == InitSeqLive /\ [][FasNext]_vars /\ WF_vars(FasNext)

\* A call of anomaly_detect
InitDetect == DetInit /\ FasIdle /\ MkIdle

SpecDetect == InitDetect /\ [][DetNext]_vars

\* A call of anomaly_detect with any flags
InitDetectFlags == DetInitFlags /\ FasIdle /\ MkIdle

SpecDetectFlags == InitDetectFlags /\ [][DetNext]_vars

\* A call of anomaly_news_markup_func
InitMark == MkInit /\ FasIdle /\ DetIdle

SpecMark == InitMark /\ [][MkNext]_vars

-----------------------------------------------------------------------------
(* Claims about find_all_sequences                                         *)

\* The Python indices of s
Indices(s) == 0..(Len(s) - 1)

\* The runs of res that contain the Python index i
RunsWith(res, i) == {j \in 1..Len(res) : res[j][1] <= i /\ i <= res[j][2]}

\* C1: with a predicate, every returned (s, e) has 0 <= s <= e <= len(a)-1, the
\* predicate holds at every index of [s, e] and fails at s-1 and e+1 where those
\* are in bounds, and the runs are pairwise disjoint and strictly ascending.
C1_RunsSoundMaximalSorted ==
    (fpc = "done" /\ ~key.none) =>
        /\ \A j \in 1..Len(result) :
              /\ 0 <= result[j][1]
              /\ result[j][1] <= result[j][2]
              /\ result[j][2] <= Len(a) - 1
              /\ \A i \in result[j][1]..result[j][2] : a[i + 1] \in key.holds
              /\ result[j][1] - 1 >= 0 => a[result[j][1]] \notin key.holds
              /\ result[j][2] + 1 <= Len(a) - 1 => a[result[j][2] + 2] \notin key.holds
        /\ \A j, l \in 1..Len(result) : j < l => result[j][2] < result[l][1]

\* A finished predicate scan that returned several runs, one of them a single
\* isolated position (i, i) strictly inside the input.
C1_Witness ==
    /\ fpc = "done"
    /\ ~key.none
    /\ Len(result) >= 2
    /\ \E j \in 1..Len(result) :
          /\ result[j][1] = result[j][2]
          /\ result[j][1] > 0
          /\ result[j][2] < Len(a) - 1

\* C2: with a predicate, every index at which the predicate holds lies in exactly
\* one returned run, and the union of the runs is the set of those indices.
C2_RunsComplete ==
    (fpc = "done" /\ ~key.none) =>
        /\ \A i \in Indices(a) :
              a[i + 1] \in key.holds => Cardinality(RunsWith(result, i)) = 1
        /\ {i \in Indices(a) : RunsWith(result, i) # {}}
              = {i \in Indices(a) : a[i + 1] \in key.holds}

\* A finished predicate scan with several runs, the last ending at the last index.
C2_Witness ==
    /\ fpc = "done"
    /\ ~key.none
    /\ Len(result) >= 2
    /\ result[Len(result)][2] = Len(a) - 1

RECURSIVE CoveredLength(_)
CoveredLength(res) ==
    IF res = <<>> THEN 0
    ELSE (Head(res)[2] - Head(res)[1] + 1) + CoveredLength(Tail(res))

\* C3: without a predicate the runs partition 0..len(a)-1 (each index in exactly
\* one run, covered length len(a)), ascend by start, hold equal values inside a
\* run and different values in consecutive runs.
C3_NoKeyPartition ==
    (fpc = "done" /\ key.none) =>
        /\ \A i \in Indices(a) : Cardinality(RunsWith(result, i)) = 1
        /\ \A j \in 1..Len(result) :
              /\ 0 <= result[j][1]
              /\ result[j][1] <= result[j][2]
              /\ result[j][2] <= Len(a) - 1
              /\ \A i \in result[j][1]..result[j][2] : a[i + 1] = a[result[j][1] + 1]
        /\ CoveredLength(result) = Len(a)
        /\ \A j \in 1..(Len(result) - 1) :
              /\ result[j][1] < result[j + 1][1]
              /\ a[result[j][1] + 1] # a[result[j + 1][1] + 1]

\* A finished no-predicate call in which a value reappears non-adjacently and so
\* has two separate runs.
C3_Witness ==
    /\ fpc = "done"
    /\ key.none
    /\ \E j, l \in 1..Len(result) :
          /\ j + 1 < l
          /\ a[result[j][1] + 1] = a[result[l][1] + 1]

-----------------------------------------------------------------------------
(* Claims about anomaly_detect                                             *)

\* The price at the Python index i
Price(i) == ts[i + 1]

\* The percent change from price x to price y is strictly greater than
\* percent / 100 (over a zero price the change is +infinity when y > 0 and
\* undefined when y = 0).
GrowsOver(x, y, percent) ==
    IF x = 0 THEN y > 0 ELSE (y - x) * 100 > percent * x

\* The change from index i to index j, both in the series, exceeds percent / 100.
StepOver(i, j, percent) ==
    /\ 0 <= i
    /\ j <= Len(ts) - 1
    /\ GrowsOver(Price(i), Price(j), percent)

AllPositive == \A i \in Indices(ts) : Price(i) > 0

\* C4 as stated, on strictly positive prices: the raw 3over20 flag at i is true
\* iff the changes i -> i+1, i+1 -> i+2 and i+2 -> i+3 all exceed 0.20.
C4_RawLooksThreeAhead ==
    ("3over20" \in DOMAIN raw_map /\ AllPositive) =>
        \A i \in Indices(ts) :
            raw_map["3over20"][i + 1] <=> /\ StepOver(i, i + 1, 20)
                             /\ StepOver(i + 1, i + 2, 20)
                             /\ StepOver(i + 2, i + 3, 20)

\* C4 amended: the raw 3over20 flag at i is true iff the changes i-1 -> i,
\* i -> i+1 and i+1 -> i+2 all exceed 0.20 (so never at 0, n-2 or n-1).
C4_RawLooksOneBackTwoAhead ==
    "3over20" \in DOMAIN raw_map =>
        \A i \in Indices(ts) :
            raw_map["3over20"][i + 1] <=> /\ StepOver(i - 1, i, 20)
                             /\ StepOver(i, i + 1, 20)
                             /\ StepOver(i + 1, i + 2, 20)

\* A raw 3over20 map of positive prices with a flag in it.
C4_Witness ==
    /\ "3over20" \in DOMAIN raw_map
    /\ AllPositive
    /\ \E i \in Indices(ts) : raw_map["3over20"][i + 1]

\* The flag at j is the raw flag at j, j-1 or j-2.
SmearOf(raw, col) ==
    \A j \in 0..(Len(col) - 1) :
        col[j + 1] <=> \E d \in 0..2 : j - d >= 0 /\ raw[j - d + 1]

\* C5: in both columns the final flag at j is true iff the raw flag is true at
\* j, j-1 or j-2: a cell set only by the smear never smears in turn.
C5_SmearFromRawOnly ==
    dpc = "done" =>
        /\ SmearOf(raw_map["3over20"], df["3over20"])
        /\ SmearOf(raw_map["80over3"], df["80over3"])

\* A returned 3over20 column whose only raw flag is at i: i+2 is set by the smear
\* and i+3, inside the series, stays false.
C5_Witness ==
    /\ dpc = "done"
    /\ AllPositive
    /\ \E i \in Indices(ts) :
          /\ raw_map["3over20"][i + 1]
          /\ i + 3 <= Len(ts) - 1
          /\ ~raw_map["3over20"][i + 2]
          /\ ~raw_map["3over20"][i + 3]
          /\ df["3over20"][i + 3]
          /\ ~df["3over20"][i + 4]

\* Every flag of col has its two successors flagged, where they exist.
FlagHasSuccessors(col) ==
    \A i \in 0..(Len(col) - 1) :
        col[i + 1] => \A d \in 1..2 : i + d <= Len(col) - 1 => col[i + d + 1]

\* C6 as stated, on strictly positive prices: in both columns a flagged position
\* i has i+1 and i+2 flagged, except beyond the end of the series.
C6_EveryFlagHasSuccessors ==
    (dpc = "done" /\ AllPositive) =>
        /\ FlagHasSuccessors(df["3over20"])
        /\ FlagHasSuccessors(df["80over3"])

\* Every raw flag of raw has itself and its two successors flagged in col, where
\* they exist.
RawHasSuccessors(raw, col) ==
    \A i \in 0..(Len(col) - 1) :
        raw[i + 1] => \A d \in 0..2 : i + d <= Len(col) - 1 => col[i + d + 1]

\* C6 amended: in both columns a position i with a raw detection has i, i+1 and
\* i+2 flagged, except beyond the end of the series.
C6_RawFlagHasSuccessors ==
    dpc = "done" =>
        /\ RawHasSuccessors(raw_map["3over20"], df["3over20"])
        /\ RawHasSuccessors(raw_map["80over3"], df["80over3"])

\* A returned 80over3 column with a raw detection at i and i+2 inside the
\* series, flagged by the smear alone.
C6_Witness ==
    /\ dpc = "done"
    /\ AllPositive
    /\ \E i \in Indices(ts) :
          /\ raw_map["80over3"][i + 1]
          /\ i + 2 <= Len(ts) - 1
          /\ ~raw_map["80over3"][i + 3]
          /\ df["80over3"][i + 3]

\* C7 as stated, on strictly positive prices and without forward fill: the raw
\* 80over3 flag at i is true iff ts[i+5] exceeds ts[i+2] by more than 80%.
C7_RawComparesFiveAhead ==
    ("80over3" \in DOMAIN raw_map /\ AllPositive /\ ~fill_pad) =>
        \A i \in Indices(ts) : raw_map["80over3"][i + 1] <=> StepOver(i + 2, i + 5, 80)

\* C7 amended: the raw 80over3 flag at i is true iff i >= 3 and ts[i+2] exceeds
\* ts[i-1] by more than 80%; at the last two positions, where ts[i+2] does not
\* exist, the last price stands in for it when pct_change forward-fills, and the
\* flag is false when it does not.
C7_RawComparesThreeBack ==
    "80over3" \in DOMAIN raw_map =>
        \A i \in Indices(ts) :
            raw_map["80over3"][i + 1] <=>
                /\ i >= 3
                /\ IF i + 2 <= Len(ts) - 1
                   THEN StepOver(i - 1, i + 2, 80)
                   ELSE fill_pad /\ StepOver(i - 1, Len(ts) - 1, 80)

\* A raw 80over3 map of positive prices, not forward-filled, with a flag in it.
C7_Witness ==
    /\ "80over3" \in DOMAIN raw_map
    /\ AllPositive
    /\ ~fill_pad
    /\ \E i \in Indices(ts) : raw_map["80over3"][i + 1]

-----------------------------------------------------------------------------
(* Claims about anomaly_news_markup_func                                    *)

Slots == 0..(Len(rows) - 1)

\* The anomaly signal is true on slot i
AnomalyTrue(i) == rows[i + 1] = "A"

\* The value column is missing on slot i
ValueMissing(i) == rows[i + 1] \in {"M", "X"}

\* [s, e] is a maximal run of slots of S
MaximalRun(S, s, e) ==
    /\ s <= e
    /\ \A i \in s..e : i \in S
    /\ (s - 1) \notin S
    /\ (e + 1) \notin S

\* Every slot of the frame within lo..hi has the mark v
AllMarked(lo, hi, v) == \A i \in Slots : (lo <= i /\ i <= hi) => mark[i + 1] = v

\* C8: in the returned frame, for every maximal run [s, e] of anomaly-true
\* slots or of missing-value slots, every slot of [max(0, s-3), min(n-1, e+3)]
\* has the mark na_mark.
C8_ExpandedRunsInvalid ==
    mpc = "done" =>
        \A S \in {{i \in Slots : AnomalyTrue(i)}, {i \in Slots : ValueMissing(i)}} :
            \A s, e \in Slots :
                MaximalRun(S, s, e) => AllMarked(s - 3, e + 3, na_mark)

\* The window sel has no missing value and has an anomaly-true slot
Triggers(sel) ==
    /\ \E i \in sel : AnomalyTrue(i)
    /\ \A i \in sel : ~ValueMissing(i)

\* The earliest anomaly-true slot of the window sel
Earliest(sel) ==
    CHOOSE i \in sel : AnomalyTrue(i) /\ \A j \in sel : AnomalyTrue(j) => i <= j

\* The iteration for the event news takes the slot d as f_a_date and leaves
\* every slot of d-7..d+5 within the frame with the mark 1
TakesAndMarks(news, d) ==
    MkNews(news) =>
        /\ f_a_dates' = f_a_dates \cup {d}
        /\ \A i \in Slots : (d - 7 <= i /\ i <= d + 5) => mark'[i + 1] = 1

C10_MissingValueEventSkipped ==
    [][(mpc = "news" /\ news_n' = news_n + 1) =>
          \/ /\ mark' = mark
             /\ val_col' = val_col
             /\ anomaly' = anomaly
             /\ f_a_dates' = f_a_dates
             /\ mpc' = "news"
          \/ \A news \in NewsDates :
                 MkNews(news) => \A i \in Selected(news) : ~ValueMissing(i)]_vars

\* The frame is returned, an event was skipped, the frame has an anomaly-true
\* slot found as a run, and no slot has the mark 1
C10_Witness ==
    /\ mpc = "done"
    /\ skipped > 0
    /\ \E i \in Slots : AnomalyTrue(i)
    /\ a_n_list # <<>>
    /\ \A i \in Slots : mark[i + 1] # 1

\* The slot of the last business day dated no later than the date
LastSlotUpTo(date) == date.slot

\* The slot of the k-th business day strictly before the date
SlotBefore(date, k) == IF date.weekend THEN date.slot - (k - 1) ELSE date.slot - k

\* C11: for every event date, weekday or weekend, the window the function
\* examines is the slots of the frame dated from 10 business days before the
\* date through the date itself; no slot dated after the date is in it.
C11_WindowEndsOnEventDay ==
    mpc = "news" =>
        \A news \in NewsDates :
            Selected(news) =
                {i \in Slots : SlotBefore(news, 10) <= i /\ i <= LastSlotUpTo(news)}

\* The iteration for the event news sets exactly the mark of slot d to 1
MarksOnly(news, d) ==
    MkNews(news) =>
        /\ f_a_dates' = f_a_dates \cup {d}
        /\ mark'[d + 1] = 1
        /\ \A i \in Slots : i # d => mark'[i + 1] = mark[i + 1]

\* C12: with mark_period false, an event that is not skipped and whose window
\* (the slots lines 124-127 select) has an anomaly-true slot sets the mark of
\* the earliest anomaly-true slot of the window to 1 and leaves the mark of
\* every other slot as it was.
C12_SingleDayMarked ==
    [][(~mark_period /\ mpc = "news" /\ news_n' = news_n + 1) =>
          \A news \in NewsDates :
              Triggers(Selected(news)) =>
                  MarksOnly(news, Earliest(Selected(news)))]_vars

\* The frame is returned, an event has marked a slot that the pass over
\* a_n_list had set to na_mark, only the slots taken as f_a_date have the mark
\* 1, and another slot still has the mark na_mark
C12_Witness ==
    /\ mpc = "done"
    /\ ~mark_period
    /\ \E d \in f_a_dates :
           \E j \in 1..Len(a_n_list) : a_n_list[j][1] <= d /\ d <= a_n_list[j][2]
    /\ \A i \in Slots : mark[i + 1] = 1 <=> i \in f_a_dates
    /\ \E i \in Slots : mark[i + 1] = na_mark

\* The slot i lies in the expansion by 3, clamped to the frame, of a maximal
\* run of anomaly-true slots or of missing-value slots
InExpandedRun(i) ==
    \E S \in {{j \in Slots : AnomalyTrue(j)}, {j \in Slots : ValueMissing(j)}} :
        \E s, e \in Slots : MaximalRun(S, s, e) /\ s - 3 <= i /\ i <= e + 3

\* C15: with an empty news_list the returned frame has the mark na_mark on the
\* slots that lie in the clamped 3-slot expansion of an anomaly-true run or of
\* a missing-value run, and the mark 0 on every other slot.
C15_EmptyNewsOnlyInvalidPass ==
    (mpc = "done" /\ news_len = 0) =>
        \A i \in Slots :
            mark[i + 1] = (IF InExpandedRun(i) THEN na_mark ELSE 0)

Max(x, y) == IF x > y THEN x ELSE y

Min(x, y) == IF x < y THEN x ELSE y

\* [s, e] is a maximal run of anomaly-true slots or of missing-value slots
SomeMaximalRun(s, e) ==
    \/ MaximalRun({j \in Slots : AnomalyTrue(j)}, s, e)
    \/ MaximalRun({j \in Slots : ValueMissing(j)}, s, e)

\* C20: for a frame of n >= 1 slots and every run (s, e) with 0 <= s <= e <=
\* n-1 the expanded interval is (max(0, s-3), min(n-1, e+3)), and so is every
\* entry of a_n_list for the run it was made from: within 0..n-1, also for n < 4.
C20_ExpandIsClampedMargin ==
    /\ \A s, e \in Slots :
           s <= e => Expand(<<s, e>>, Len(rows))
                        = <<Max(0, s - 3), Min(Len(rows) - 1, e + 3)>>
    /\ \A j \in 1..Len(a_n_list) :
           \E s, e \in Slots :
               /\ SomeMaximalRun(s, e)
               /\ a_n_list[j] = <<Max(0, s - 3), Min(Len(rows) - 1, e + 3)>>

\* a_n_list holds a run expanded by the full margin on both sides, and a run
\* cut at the start of the frame or at its end
C20_Witness ==
    /\ mpc = "runs"
    /\ \E s, e \in Slots :
           /\ SomeMaximalRun(s, e)
           /\ s >= 3 /\ e + 3 <= Len(rows) - 1
           /\ \E j \in 1..Len(a_n_list) : a_n_list[j] = <<s - 3, e + 3>>
    /\ \E s, e \in Slots :
           /\ SomeMaximalRun(s, e)
           /\ (s < 3 \/ e + 3 > Len(rows) - 1)
           /\ \E j \in 1..Len(a_n_list) :
                  a_n_list[j] = <<Max(0, s - 3), Min(Len(rows) - 1, e + 3)>>

-----------------------------------------------------------------------------
(* Further claims about find_all_sequences                                 *)

\* C16, as stated: for an empty and for a single-element input the returned
\* run list is empty, for every predicate and with no predicate.
C16_ShortInputNoRuns ==
    (fpc = "done" /\ Len(a) <= 1) => result = <<>>

\* C16, as the code has it: the call on an empty or single-element input
\* returns; for an empty input the run list is empty; for a single element it
\* is [(0, 0)] when the predicate holds of the element, as it always does with
\* no predicate, and empty when it does not.
C16_ShortInputRuns ==
    (fpc = "done" /\ Len(a) <= 1) =>
        result = (IF Len(a) = 1 /\ (key.none \/ a[1] \in key.holds)
                  THEN << <<0, 0>> >>
                  ELSE <<>>)

\* A finished call on a single element, with no predicate, that returned (0, 0)
C16_Witness ==
    /\ fpc = "done"
    /\ Len(a) = 1
    /\ key.none
    /\ result = << <<0, 0>> >>

-----------------------------------------------------------------------------
(* Further claims about anomaly_detect                                     *)

\* C13: a raw 3over20 or 80over3 flag never rests on a percent change over a
\* zero price: where the flag at i is true, the divisors of its percent changes
\* (the prices at i-1, i and i+1 for 3over20, at i-1 for 80over3) are not 0.
C13_ZeroDivisorNeverFlags ==
    /\ "3over20" \in DOMAIN raw_map =>
           \A i \in Indices(ts) :
               raw_map["3over20"][i + 1] =>
                   \A j \in {i - 1, i, i + 1} : j \in Indices(ts) => Price(j) # 0
    /\ "80over3" \in DOMAIN raw_map =>
           \A i \in Indices(ts) :
               raw_map["80over3"][i + 1] => (i >= 1 => Price(i - 1) # 0)

\* Some percent change the rule of the column takes at index i is NaN
UndefinedAt(c, i) ==
    IF c = "3over20"
    THEN \/ pct_lag1(ts, fill_pad)[i + 1].kind = "nan"
         \/ pct_lag2(ts, fill_pad)[i + 1].kind = "nan"
         \/ pct_lag3(ts, fill_pad)[i + 1].kind = "nan"
    ELSE pct_over3(ts, fill_pad)[i + 1].kind = "nan"

TrueExactlyAt(S) ==
    \A i \in Indices(ts) : df["3over20"][i + 1] <=> i \in S

\* C17, as stated: in the scenario the 3over20 column is true for the days 3,
\* 4 and 5.
C17_ScenarioFlagsDays345 ==
    (ts = RiseScenario /\ dpc = "done") =>
        \A i \in {3, 4, 5} : df["3over20"][i + 1]

\* C17, as the code has it: in the scenario the 3over20 column is true for the
\* days 4, 5 and 6 and for no other day.
C17_ScenarioFlagsDays456 ==
    (ts = RiseScenario /\ dpc = "done") => TrueExactlyAt({4, 5, 6})

\* The call on the scenario has returned
C17_Witness ==
    /\ ts = RiseScenario
    /\ dpc = "done"
    /\ df["3over20"][5]

\* C18, as stated, on strictly positive prices: the raw 3over20 flag is false
\* at each of the last 3 positions.
C18_RawFalseAtLastThree ==
    ("3over20" \in DOMAIN raw_map /\ AllPositive) =>
        \A i \in Indices(ts) : i >= Len(ts) - 3 => ~raw_map["3over20"][i + 1]

\* C18, as the code has it: the raw 3over20 flag is false at each of the last
\* 2 positions and at position 0.
C18_RawFalseAtLastTwoAndFirst ==
    "3over20" \in DOMAIN raw_map =>
        \A i \in Indices(ts) :
            (i >= Len(ts) - 2 \/ i = 0) => ~raw_map["3over20"][i + 1]

\* A raw 3over20 map of positive prices with a flag at n-3
C18_Witness ==
    /\ "3over20" \in DOMAIN raw_map
    /\ AllPositive
    /\ Len(ts) >= 4
    /\ raw_map["3over20"][Len(ts) - 2]

\* The rule of 3over20 at index i, of the prices
Rule3over20(i) ==
    /\ StepOver(i - 1, i, 20)
    /\ StepOver(i, i + 1, 20)
    /\ StepOver(i + 1, i + 2, 20)

\* The rule of 80over3 at index i, of the prices and of how pct_change fills
Rule80over3(i) ==
    /\ i >= 3
    /\ IF i + 2 <= Len(ts) - 1
       THEN StepOver(i - 1, i + 2, 80)
       ELSE fill_pad /\ StepOver(i - 1, Len(ts) - 1, 80)

\* The column of a rule: true at j where the rule holds at j, j-1 or j-2
RuleColumn(Rule(_)) ==
    [j \in 1..Len(ts) |-> \E d \in 0..2 : j - 1 - d >= 0 /\ Rule(j - 1 - d)]

\* C19: no step of anomaly_detect writes ts or the flags, and the returned
\* table is a function of ts (and of how the installed pct_change fills), so
\* two calls on the same series return the same table.
C19_DeterministicInputUntouched ==
    /\ [][ts' = ts /\ flags' = flags]_vars
    /\ [](dpc = "done" =>
            df = [c \in {"3over20", "80over3"} |->
                    IF c = "3over20" THEN RuleColumn(Rule3over20)
                    ELSE RuleColumn(Rule80over3)])

\* A returned table with a flag in each column, one of them set by the smear
C19_Witness ==
    /\ dpc = "done"
    /\ AllPositive
    /\ \E i \in Indices(ts) : df["3over20"][i + 1] /\ ~raw_map["3over20"][i + 1]
    /\ \E i \in Indices(ts) : df["80over3"][i + 1]


-----------------------------------------------------------------------------
(* Further claims about anomaly_news_markup_func                            *)

\* The marks the loop of lines 116-119 leaves when it goes over runs in the
\* order given, starting from the marks m
RECURSIVE MarkRuns(_, _, _)
MarkRuns(m, runs, v) ==
    IF runs = <<>> THEN m
    ELSE MarkRuns(SetMark(m, Head(runs)[1], Head(runs)[2], v), Tail(runs), v)

\* The orders in which n runs can be processed
Orders(n) == {p \in [1..n -> 1..n] : \A i, j \in 1..n : p[i] = p[j] => i = j}

\* The column mark as line 96 sets it
ZeroMarks == [i \in 1..Len(rows) |-> 0]

\* C21: when the loop over the expanded runs is over, the column mark is what
\* the loop leaves for every processing order of the runs, and processing any
\* run once more leaves it as it is, also when expanded runs overlap.
C21_InvalidPassOrderFree ==
    (mpc = "runs" /\ run_i = Len(a_n_list)) =>
        /\ \A p \in Orders(Len(a_n_list)) :
               MarkRuns(ZeroMarks, [j \in 1..Len(a_n_list) |-> a_n_list[p[j]]],
                        na_mark) = mark
        /\ \A j \in 1..Len(a_n_list) :
               SetMark(mark, a_n_list[j][1], a_n_list[j][2], na_mark) = mark

\* The loop is over two different expanded runs that overlap, neither of
\* which covers the whole frame
C21_Witness ==
    /\ mpc = "runs"
    /\ run_i = Len(a_n_list)
    /\ Len(a_n_list) = 2
    /\ a_n_list[1] # a_n_list[2]
    /\ a_n_list[2][1] <= a_n_list[1][2]
    /\ a_n_list[1][2] < a_n_list[2][2]
    /\ \E i \in Slots : mark[i + 1] = 0


-----------------------------------------------------------------------------
(* The no-predicate mode against a single pass                              *)

\* One pass from left to right over s that emits the run start..i-1 each time
\* the value at i differs from the value of the run, and the last run at the end
RECURSIVE SinglePassFrom(_, _, _, _)
SinglePassFrom(s, start, i, res) ==
    IF i >= Len(s)
    THEN IF Len(s) = 0 THEN res ELSE Append(res, <<start, i - 1>>)
    ELSE IF s[i + 1] # s[start + 1]
    THEN SinglePassFrom(s, i, i + 1, Append(res, <<start, i - 1>>))
    ELSE SinglePassFrom(s, start, i + 1, res)

SinglePass(s) == SinglePassFrom(s, 0, 0, <<>>)

\* C22: without a predicate, the list returned (one scan per distinct value,
\* merged, sorted by start) is the list of the single pass that emits a run
\* each time the value changes.
C22_NoKeyEqualsSinglePass ==
    (fpc = "done" /\ key.none) => result = SinglePass(a)

\* A finished no-predicate call on an input with three distinct values, one of
\* them in a run of two or more, whose runs come from different scans
C22_Witness ==
    /\ fpc = "done"
    /\ key.none
    /\ Cardinality(SetOf(a)) = 3
    /\ Len(result) >= 4
    /\ \E j \in 1..Len(result) : result[j][2] > result[j][1]
    /\ result = SinglePass(a)


-----------------------------------------------------------------------------
(* The returned marks                                                       *)

\* The slot i is marked for an event whose first anomaly is on slot d: in the
\* span d-7..d+5 with mark_period, the slot d itself without
InNewsMark(i, d) ==
    IF mark_period THEN d - DaysBefore <= i /\ i <= d + DaysAfter ELSE i = d

\* The mark of slot i by precedence: 1 for a slot marked for the first anomaly
\* of some event that was not skipped, else na_mark for a slot in an expanded
\* anomaly-true or missing-value run, else 0
MarkByPrecedence(i) ==
    IF \E d \in f_a_dates : InNewsMark(i, d) THEN 1
    ELSE IF InExpandedRun(i) THEN na_mark
    ELSE 0

\* C23: in the returned frame every slot has the mark given by the precedence
\* news > invalid > normal, and no other value.
C23_MarkByPrecedence ==
    mpc = "done" => \A i \in Slots : mark[i + 1] = MarkByPrecedence(i)


\* What an event does to the marks, by the slot it takes as f_a_date: t is
\* that slot, or -1 for an event that is skipped or has no anomaly in its window
ApplyTrigger(m, t) == IF t < 0 THEN m ELSE MarkNews(m, t)

\* The slot the event news takes as f_a_date, read from the value and anomaly
\* columns alone; -1 if it takes none
TriggerOf(news) ==
    LET sel == Selected(news)
    IN  IF AnyIsNa(sel) \/ AnomalyDates(sel) = {} THEN 0 - 1
        ELSE First(AnomalyDates(sel))

\* The marks as the pass over a_n_list leaves them
InvalidMarks == MarkRuns(ZeroMarks, a_n_list, na_mark)

\* C24: the marks do not depend on the order of the events nor on repeated
\* events.  During and after the loop over news_list the marks are a function
\* of the set of slots taken as f_a_date: 1 on the slots marked for one of them,
\* the marks of the invalid-marking pass elsewhere; and from the marks at the
\* start of the loop, any two events give the same marks in either order, and
\* an event processed twice gives the marks of processing it once.
C24_NewsOrderFree ==
    /\ mpc \in {"news", "done"} =>
           \A i \in Slots :
               mark[i + 1] = (IF \E d \in f_a_dates : InNewsMark(i, d) THEN 1
                              ELSE InvalidMarks[i + 1])
    /\ (mpc = "news" /\ news_n = 0) =>
           LET triggers == {TriggerOf(news) : news \in NewsDates}
           IN  /\ f_a_dates = {}
               /\ \A t1, t2 \in triggers :
                      /\ ApplyTrigger(ApplyTrigger(mark, t1), t2)
                             = ApplyTrigger(ApplyTrigger(mark, t2), t1)
                      /\ ApplyTrigger(ApplyTrigger(mark, t1), t1)
                             = ApplyTrigger(mark, t1)

\* The frame is returned after two events that took different slots as
\* f_a_date, and not every slot has the mark 1
C24_Witness ==
    /\ mpc = "done"
    /\ news_n = 2
    /\ Cardinality(f_a_dates) = 2
    /\ \E i \in Slots : mark[i + 1] # 1


-----------------------------------------------------------------------------
(* The runs of flags in the returned columns                                *)

\* A maximal run of true cells of col starts at the Python index s
RunStartsAt(col, s) ==
    /\ col[s + 1]
    /\ s > 0 => ~col[s]

\* C26: in the returned columns 3over20 and 80over3, a maximal run of true
\* flags starts on a raw detection and holds the two positions after its
\* start as far as the series goes: it has length 3 or more, or it ends at the
\* last position.
C26_FlagRunsOfThree ==
    dpc = "done" =>
        \A c \in {"3over20", "80over3"} :
            \A s \in Indices(ts) :
                RunStartsAt(df[c], s) =>
                    /\ raw_map[c][s + 1]
                    /\ \A k \in {s + 1, s + 2} : k <= Len(ts) - 1 => df[c][k + 1]

\* A call has returned, on positive prices, with a run of exactly three flags
\* that ends before the last position and with a run cut short by the end of
\* the series
C26_Witness ==
    /\ dpc = "done"
    /\ AllPositive
    /\ \E c \in {"3over20", "80over3"} :
           \E s \in Indices(ts) :
               /\ RunStartsAt(df[c], s)
               /\ s + 3 <= Len(ts) - 1
               /\ ~df[c][s + 4]
    /\ \E c \in {"3over20", "80over3"} :
           \E s \in Indices(ts) :
               /\ RunStartsAt(df[c], s)
               /\ s + 2 > Len(ts) - 1


-----------------------------------------------------------------------------
(* Termination of find_all_sequences                                        *)

\* C27: every call returns.  An iteration of the outer loop moves idx forward,
\* by one where the predicate fails and by the length (one or more) of the run
\* it appends where the predicate holds; idx never exceeds len(a); no step
\* writes the input.
C27_Terminates ==
    /\ [][(fpc = "loop" /\ idx < Len(a) /\ fpc' = "loop") =>
             /\ idx' > idx
             /\ idx' <= Len(a)
             /\ ~KeyAt(a, key, idx) => (idx' = idx + 1 /\ result' = result)
             /\ KeyAt(a, key, idx) =>
                    /\ idx' >= idx + 1
                    /\ result' = Append(result, <<idx, idx' - 1>>)]_vars
    /\ [][a' = a]_vars
    /\ [](idx <= Len(a))
    /\ <>(fpc = "done")

\* A call with a predicate has returned after iterations of both kinds: the
\* input has an element at which the predicate fails and a run of two or more
C27_Witness ==
    /\ fpc = "done"
    /\ ~key.none
    /\ idx = Len(a)
    /\ Len(a) >= 3
    /\ \E i \in Indices(a) : ~KeyAt(a, key, i)
    /\ \E j \in 1..Len(result) : result[j][2] > result[j][1]

=============================================================================
